---- MODULE Spec2Model ----
(***************************************************************************)
(* Model of tracing_log_viewer (src/src/main.rs): the line pipeline of     *)
(* main, the two parsers parse_line_from_scratch and                       *)
(* parse_line_path_from_general_format, and colorize_line.                 *)
(*                                                                         *)
(* A line is a sequence of bytes, each byte a one-element string.  The     *)
(* two bytes of a two-byte UTF-8 character are "xC3" (lead) and "xA9"      *)
(* (continuation).  Offsets are 0-based byte offsets as in the source; a   *)
(* Rust slice line[a..b] is SubSeq(line, a+1, b) and panics when a > b,     *)
(* b > len or an end is not a character boundary.                          *)
(***************************************************************************)
EXTENDS Integers, Sequences, FiniteSets, TLC

VARIABLES
    pc,             \* where main is: "read" (line 69), "parse" (71), "write" (89),
                    \* "drop" (93), "wait" (94); ended: "done" (Ok), "failed"
                    \* (Err of an I/O error), "panicked"
    pipe,           \* args.pipe
    child,          \* the less process: "none", "running", "exited", "reaped"
    sink_open,      \* write_destination has not been dropped
    general_format, \* main's general_format, an Option<GeneralLineFormat>
    l,              \* the line of the current iteration
    parser,         \* the parser the current iteration called
    full_format,    \* the Option<LineFormat> that parser returned
    new_line,       \* the output line of the current iteration
    n_read,         \* lines read so far
    n_written       \* lines written so far

vars == <<pc, pipe, child, sink_open, general_format, l, parser, full_format,
          new_line, n_read, n_written>>

\* Number of lines the input stream may hold.
MaxLines == 3

\* line.len() < 4
MinLineLen == 4

-----------------------------------------------------------------------------
(* Option<T> *)
None == [some |-> FALSE]
Some(v) == [some |-> TRUE, val |-> v]

(* Outcome of a function returning Option<T> that may also panic. *)
RetNone == [kind |-> "None"]
RetPanic == [kind |-> "Panic"]
RetSome(v) == [kind |-> "Some", val |-> v]

-----------------------------------------------------------------------------
(* Bytes and strings *)

UpperCase == <<"A","B","C","D","E","F","G","H","I","J","K","L","M",
               "N","O","P","Q","R","S","T","U","V","W","X","Y","Z">>
LowerCase == <<"a","b","c","d","e","f","g","h","i","j","k","l","m",
               "n","o","p","q","r","s","t","u","v","w","x","y","z">>

\* u8::to_ascii_lowercase
ByteToAsciiLowercase(b) ==
    IF \E i \in DOMAIN UpperCase : UpperCase[i] = b
    THEN LowerCase[CHOOSE i \in DOMAIN UpperCase : UpperCase[i] = b]
    ELSE b

\* str::to_ascii_lowercase
to_ascii_lowercase(s) == [i \in 1..Len(s) |-> ByteToAsciiLowercase(s[i])]

\* char::is_whitespace, over the bytes the model's lines are made of
IsWhitespace(b) == b \in {" ", "\t"}

\* UTF-8 continuation bytes (0x80..0xBF) among the model's bytes
IsContinuation(b) == b \in {"xA9"}

\* str::is_char_boundary
is_char_boundary(s, i) ==
    \/ i = 0
    \/ i = Len(s)
    \/ (i > 0 /\ i < Len(s) /\ ~IsContinuation(s[i + 1]))

\* whether the slice s[a..b] is taken without a panic
SliceOk(s, a, b) ==
    /\ a <= b
    /\ b <= Len(s)
    /\ is_char_boundary(s, a)
    /\ is_char_boundary(s, b)

\* the slice s[a..b]
Slice(s, a, b) == SubSeq(s, a + 1, b)

RECURSIVE TrimStart(_)
TrimStart(s) ==
    IF s /= <<>> /\ IsWhitespace(Head(s)) THEN TrimStart(Tail(s)) ELSE s

RECURSIVE TrimEnd(_)
TrimEnd(s) ==
    IF s /= <<>> /\ IsWhitespace(s[Len(s)])
    THEN TrimEnd(SubSeq(s, 1, Len(s) - 1))
    ELSE s

\* str::trim
trim(s) == TrimEnd(TrimStart(s))

\* str::find(' '): offset of the first space, or -1 for None
find_space(s) ==
    IF \E i \in 1..Len(s) : s[i] = " "
    THEN (CHOOSE i \in 1..Len(s) :
              s[i] = " " /\ \A j \in 1..(i - 1) : s[j] /= " ") - 1
    ELSE -1

-----------------------------------------------------------------------------
(* LogType and its colours *)

LogTypes == {"Error", "Warn", "Info", "Debug", "Trace"}

Esc(code) == <<"ESC", "[">> \o code \o <<"m">>

\* as_colour_str with the normal-intensity codes 31..35 for the bright ones
as_colour_str_dim(t) ==
    CASE t = "Error" -> Esc(<<"3", "1">>)
      [] t = "Warn"  -> Esc(<<"3", "3">>)
      [] t = "Info"  -> Esc(<<"3", "2">>)
      [] t = "Debug" -> Esc(<<"3", "4">>)
      [] t = "Trace" -> Esc(<<"3", "5">>)

\* LogType::as_colour_str
as_colour_str(t) ==
    CASE t = "Error" -> Esc(<<"9", "1">>)
      [] t = "Warn"  -> Esc(<<"9", "3">>)
      [] t = "Info"  -> Esc(<<"9", "2">>)
      [] t = "Debug" -> Esc(<<"9", "4">>)
      [] t = "Trace" -> Esc(<<"9", "5">>)

grey == Esc(<<"9", "0">>)
reset == Esc(<<"0">>)

\* the match of parse_line_from_scratch on the trimmed, lower-cased level
ScratchLogType(s) ==
    LET t == to_ascii_lowercase(trim(s)) IN
    CASE t = <<"e","r","r","o","r">> -> "Error"
      [] t = <<"w","a","r","n">>     -> "Warn"
      [] t = <<"i","n","f","o">>     -> "Info"
      [] t = <<"d","e","b","u","g">> -> "Debug"
      [] t = <<"t","r","a","c","e">> -> "Trace"
      [] OTHER                       -> "NoLogType"

\* the applier's match with the lower-casing left out
GeneralLogTypeCaseSensitive(s) ==
    LET t == trim(s) IN
    CASE t = <<"e","r","r","o","r">> -> "Error"
      [] t = <<"w","a","r","n">>     -> "Warn"
      [] t = <<"i","n","f","o">>     -> "Info"
      [] t = <<"d","e","b","u","g">> -> "Debug"
      [] t = <<"t","r","a","c","e">> -> "Trace"
      [] OTHER                       -> "NoLogType"

\* the match of parse_line_path_from_general_format
GeneralLogType(s) ==
    LET t == to_ascii_lowercase(trim(s)) IN
    CASE t = <<"e","r","r","o","r">> -> "Error"
      [] t = <<"w","a","r","n">>     -> "Warn"
      [] t = <<"i","n","f","o">>     -> "Info"
      [] t = <<"d","e","b","u","g">> -> "Debug"
      [] t = <<"t","r","a","c","e">> -> "Trace"
      [] OTHER                       -> "NoLogType"

-----------------------------------------------------------------------------
(* parse_line_from_scratch *)

\* the scan loop recording every space, not only the first of a run
RECURSIVE ScanSpacesEverySpace(_, _, _, _)
ScanSpacesEverySpace(line, i, prev_was_space, space_indices) ==
    IF i >= Len(line) THEN space_indices
    ELSE IF line[i + 1] = " "
         THEN IF Len(space_indices) + 1 > 2
              THEN Append(space_indices, i)
              ELSE ScanSpacesEverySpace(line, i + 1, TRUE,
                                        Append(space_indices, i))
         ELSE ScanSpacesEverySpace(line, i + 1, FALSE, space_indices)

\* The scan loop: i is the 0-based offset of the next byte.  Only a one-byte
\* character can equal ' ', so stepping over bytes visits the same spaces
\* as char_indices does.
RECURSIVE ScanSpaces(_, _, _, _)
ScanSpaces(line, i, prev_was_space, space_indices) ==
    IF i >= Len(line) THEN space_indices
    ELSE IF line[i + 1] = " "
         THEN IF ~prev_was_space
              THEN IF Len(space_indices) + 1 > 2
                   THEN Append(space_indices, i)
                   ELSE ScanSpaces(line, i + 1, TRUE, Append(space_indices, i))
              ELSE ScanSpaces(line, i + 1, TRUE, space_indices)
         ELSE ScanSpaces(line, i + 1, FALSE, space_indices)

parse_line_from_scratch(line) ==
    IF Len(line) < MinLineLen THEN RetNone
    ELSE
      LET space_indices == ScanSpaces(line, 0, FALSE, <<>>) IN
      IF Len(space_indices) < 2 THEN RetPanic
      ELSE IF ~SliceOk(line, space_indices[1] + 1, space_indices[2])
      THEN RetPanic
      ELSE
        LET log_type ==
              ScratchLogType(Slice(line, space_indices[1] + 1, space_indices[2]))
        IN
        IF log_type = "NoLogType" THEN RetNone
        ELSE IF Len(space_indices) < 3 THEN RetPanic
        ELSE RetSome([log_type    |-> log_type,
                      tz_start    |-> 0,
                      tz_end      |-> space_indices[1] + 1,
                      level_start |-> space_indices[1] + 1,
                      level_end   |-> space_indices[2] + 1,
                      path_start  |-> space_indices[2] + 1,
                      path_end    |-> space_indices[3] + 1])

-----------------------------------------------------------------------------
(* parse_line_path_from_general_format *)

\* the applier refusing a line whose first space is not where the cached
\* timestamp ends
parse_line_path_rejecting_drift(line, gf) ==
    IF find_space(line) /= gf.tz_end - 1 THEN RetNone
    ELSE IF ~SliceOk(line, gf.level_start, gf.level_end) THEN RetPanic
    ELSE
      LET log_type == GeneralLogType(Slice(line, gf.level_start, gf.level_end))
      IN
      IF log_type = "NoLogType" THEN RetNone
      ELSE IF ~SliceOk(line, gf.path_start, Len(line)) THEN RetPanic
      ELSE
        LET found == find_space(Slice(line, gf.path_start, Len(line))) IN
        IF found = -1 THEN RetNone
        ELSE RetSome([log_type    |-> log_type,
                      tz_start    |-> gf.tz_start,
                      tz_end      |-> gf.tz_end,
                      level_start |-> gf.level_start,
                      level_end   |-> gf.level_end,
                      path_start  |-> gf.path_start,
                      path_end    |-> found + gf.path_start])

\* the applier taking the offset find returns, which counts from path_start,
\* for an offset into the line
parse_line_path_relative_end(line, gf) ==
    IF ~SliceOk(line, gf.level_start, gf.level_end) THEN RetPanic
    ELSE
      LET log_type == GeneralLogType(Slice(line, gf.level_start, gf.level_end))
      IN
      IF log_type = "NoLogType" THEN RetNone
      ELSE IF ~SliceOk(line, gf.path_start, Len(line)) THEN RetPanic
      ELSE
        LET found == find_space(Slice(line, gf.path_start, Len(line))) IN
        IF found = -1 THEN RetNone
        ELSE RetSome([log_type    |-> log_type,
                      tz_start    |-> gf.tz_start,
                      tz_end      |-> gf.tz_end,
                      level_start |-> gf.level_start,
                      level_end   |-> gf.level_end,
                      path_start  |-> gf.path_start,
                      path_end    |-> found])

parse_line_path_from_general_format(line, gf) ==
    IF ~SliceOk(line, gf.level_start, gf.level_end) THEN RetPanic
    ELSE
      LET log_type == GeneralLogType(Slice(line, gf.level_start, gf.level_end))
      IN
      IF log_type = "NoLogType" THEN RetNone
      ELSE IF ~SliceOk(line, gf.path_start, Len(line)) THEN RetPanic
      ELSE
        LET found == find_space(Slice(line, gf.path_start, Len(line))) IN
        IF found = -1 THEN RetNone
        ELSE RetSome([log_type    |-> log_type,
                      tz_start    |-> gf.tz_start,
                      tz_end      |-> gf.tz_end,
                      level_start |-> gf.level_start,
                      level_end   |-> gf.level_end,
                      path_start  |-> gf.path_start,
                      path_end    |-> found + gf.path_start])

-----------------------------------------------------------------------------
(* colorize_line *)

\* whether every slice colorize_line takes is taken without a panic
ColorizeOk(line, f) ==
    /\ SliceOk(line, f.tz_start, f.tz_end)
    /\ SliceOk(line, f.level_start, f.level_end)
    /\ SliceOk(line, f.path_start, f.path_end)
    /\ SliceOk(line, f.path_end, Len(line))

\* colorize_line with the tail taken one byte after the source end
colorize_line_skipping(line, f) ==
    grey \o Slice(line, f.tz_start, f.tz_end)
         \o as_colour_str(f.log_type)
         \o Slice(line, f.level_start, f.level_end)
         \o grey
         \o Slice(line, f.path_start, f.path_end)
         \o reset
         \o Slice(line, f.path_end + 1, Len(line))

colorize_line(line, f) ==
    grey \o Slice(line, f.tz_start, f.tz_end)
         \o as_colour_str(f.log_type)
         \o Slice(line, f.level_start, f.level_end)
         \o grey
         \o Slice(line, f.path_start, f.path_end)
         \o reset
         \o Slice(line, f.path_end, Len(line))

FailedPrefix ==
    <<"F","A","I","L","E","D"," ","T","O"," ","P","A","R","S","E"," ",
      "L","I","N","E",":"," ">>

\* format!("FAILED TO PARSE LINE: {}", l)
FailedLine(line) == FailedPrefix \o line

-----------------------------------------------------------------------------
(* The input: lines TIMESTAMP pad LEVEL pad SOURCE tail, every part possibly *)
(* missing, so that well-formed, short, drifted and malformed lines occur.   *)

Timestamps == { <<>>, <<"T">>, <<"T", "Z">> }
Pads == { <<>>, <<" ">>, <<" ", " ">> }
Levels == { <<>>,
            <<"I","N","F","O">>, <<"W","a","r","n">>, <<"\t","i","n","f","o">>,
            <<"E","R","R","O","R">>, <<"D","E","B","U","G">>,
            <<"t","R","a","C","e">>,
            <<"I","N","F">>, <<"f","a","t","a","l">> }
Sources == { <<>>, <<"s", ":">>, <<"xC3", "xA9", ":">> }
Tails == { <<>>, <<" ">>, <<" ", "m">>, <<" ", "m", " ", "m">> }

Lines ==
    { ts \o p1 \o lv \o p2 \o src \o tl :
        ts \in Timestamps, p1 \in Pads, lv \in Levels, p2 \in Pads,
        src \in Sources, tl \in Tails }

-----------------------------------------------------------------------------
(* main *)

\* lines 78-84: the GeneralLineFormat built from the learner's LineFormat
GeneralLineFormat(f) ==
    [tz_start    |-> f.tz_start,
     tz_end      |-> f.tz_end,
     level_start |-> f.level_start,
     level_end   |-> f.level_end,
     path_start  |-> f.path_start]

\* lines 71-72 and 77: the parser the loop body calls, and what it returns
ParseOutcome(line, gf) ==
    IF gf.some
    THEN [by  |-> "applier",
          res |-> parse_line_path_from_general_format(line, gf.val)]
    ELSE [by  |-> "learner",
          res |-> parse_line_from_scratch(line)]

\* general_format cleared when a line fails, so that the next line re-learns
NextGeneralFormatRelearning(gf, res) ==
    IF res.kind = "Some"
    THEN IF gf.some THEN gf ELSE Some(GeneralLineFormat(res.val))
    ELSE None

\* lines 77-84: general_format after the loop body
NextGeneralFormat(gf, res) ==
    IF ~gf.some /\ res.kind = "Some"
    THEN Some(GeneralLineFormat(res.val))
    ELSE gf

\* lines 71-88: new_line
NewLine(line, res) ==
    IF res.kind = "Some" THEN colorize_line(line, res.val) ELSE FailedLine(line)

\* the process's exit status; -1 while it runs
ExitStatus ==
    CASE pc = "done"     -> 0
      [] pc = "failed"   -> 1
      [] pc = "panicked" -> 101
      [] OTHER           -> -1

Init ==
    /\ pc = "read"
    /\ pipe \in BOOLEAN
    /\ child = IF pipe THEN "none" ELSE "running"
    /\ sink_open = TRUE
    /\ general_format = None
    /\ l = None
    /\ parser = "none"
    /\ full_format = None
    /\ new_line = None
    /\ n_read = 0
    /\ n_written = 0

\* line 69-70: reader.lines() yields a line
ReadLine ==
    /\ pc = "read"
    /\ n_read < MaxLines
    /\ \E line \in Lines : l' = Some(line)
    /\ n_read' = n_read + 1
    /\ pc' = "parse"
    /\ UNCHANGED <<pipe, child, sink_open, general_format, parser, full_format,
                   new_line, n_written>>

\* line 70: `line?` on a read error returns Err from main, dropping its locals
ReadError ==
    /\ pc = "read"
    /\ pc' = "failed"
    /\ sink_open' = FALSE
    /\ UNCHANGED <<pipe, child, general_format, l, parser, full_format,
                   new_line, n_read, n_written>>

\* line 69: reader.lines() is exhausted; line 92 chooses the way out
EndOfInput ==
    /\ pc = "read"
    /\ pc' = IF child /= "none" THEN "drop" ELSE "done"
    /\ UNCHANGED <<pipe, child, sink_open, general_format, l, parser,
                   full_format, new_line, n_read, n_written>>

\* lines 71-88: the loop body up to new_line; a panic unwinds main
ParseLine ==
    /\ pc = "parse"
    /\ LET outcome == ParseOutcome(l.val, general_format)
           res == outcome.res
           gf == IF res.kind = "Panic" THEN general_format
                 ELSE NextGeneralFormat(general_format, res)
           panics == \/ res.kind = "Panic"
                     \/ (res.kind = "Some" /\ ~ColorizeOk(l.val, res.val))
       IN
       /\ parser' = outcome.by
       /\ general_format' = gf
       /\ IF panics
          THEN /\ pc' = "panicked"
               /\ sink_open' = FALSE
               /\ new_line' = None
          ELSE /\ pc' = "write"
               /\ sink_open' = sink_open
               /\ new_line' = Some(NewLine(l.val, res))
       /\ full_format' = IF res.kind = "Some" THEN Some(res.val) ELSE None
    /\ UNCHANGED <<pipe, child, l, n_read, n_written>>

\* line 89: writeln! succeeds; l, full_format and new_line go out of scope
WriteLine ==
    /\ pc = "write"
    /\ pipe \/ child = "running"
    /\ n_written' = n_written + 1
    /\ l' = None
    /\ full_format' = None
    /\ new_line' = None
    /\ parser' = "none"
    /\ pc' = "read"
    /\ UNCHANGED <<pipe, child, sink_open, general_format, n_read>>

\* line 89: `writeln!(..)?` fails and main returns Err, dropping its locals
WriteError ==
    /\ pc = "write"
    /\ pc' = "failed"
    /\ sink_open' = FALSE
    /\ UNCHANGED <<pipe, child, general_format, l, parser, full_format,
                   new_line, n_read, n_written>>

\* line 93 left out: main goes on to wait with write_destination alive
DropSinkForgotten ==
    /\ pc = "drop"
    /\ sink_open' = sink_open
    /\ pc' = "wait"
    /\ UNCHANGED <<pipe, child, general_format, l, parser, full_format,
                   new_line, n_read, n_written>>

\* line 93: drop(write_destination)
DropSink ==
    /\ pc = "drop"
    /\ sink_open' = FALSE
    /\ pc' = "wait"
    /\ UNCHANGED <<pipe, child, general_format, l, parser, full_format,
                   new_line, n_read, n_written>>

\* line 94: child.wait() returns once the pager has exited
WaitChild ==
    /\ pc = "wait"
    /\ child = "exited"
    /\ child' = "reaped"
    /\ pc' = "done"
    /\ UNCHANGED <<pipe, sink_open, general_format, l, parser, full_format,
                   new_line, n_read, n_written>>

\* the pager (lines 52-57) exits on its own, e.g. when its user quits
PagerExit ==
    /\ child = "running"
    /\ child' = "exited"
    /\ UNCHANGED <<pc, pipe, sink_open, general_format, l, parser,
                   full_format, new_line, n_read, n_written>>

Next ==
    \/ ReadLine
    \/ ReadError
    \/ EndOfInput
    \/ ParseLine
    \/ WriteLine
    \/ WriteError
    \/ DropSink
    \/ WaitChild
    \/ PagerExit

Spec == Init /\ [][Next]_vars

\* main is sequential code: having reached line 93 it executes it
FairSpec == Spec /\ WF_vars(DropSink)

-----------------------------------------------------------------------------
(* Vocabulary of the properties *)

\* the level names of the specification, by LogType
LevelName(t) ==
    CASE t = "Error" -> <<"e","r","r","o","r">>
      [] t = "Warn"  -> <<"w","a","r","n">>
      [] t = "Info"  -> <<"i","n","f","o">>
      [] t = "Debug" -> <<"d","e","b","u","g">>
      [] t = "Trace" -> <<"t","r","a","c","e">>

\* the colour codes of the specification, by LogType
LevelColour(t) ==
    CASE t = "Error" -> <<"ESC","[","9","1","m">>
      [] t = "Warn"  -> <<"ESC","[","9","3","m">>
      [] t = "Info"  -> <<"ESC","[","9","2","m">>
      [] t = "Debug" -> <<"ESC","[","9","4","m">>
      [] t = "Trace" -> <<"ESC","[","9","5","m">>

\* s is name in some casing between two runs of whitespace
IsPaddedName(s, name) ==
    \E a \in 0..Len(s) :
        /\ a + Len(name) <= Len(s)
        /\ \A i \in 1..a : s[i] \in {" ", "\t"}
        /\ \A i \in 1..Len(name) : ByteToAsciiLowercase(s[a + i]) = name[i]
        /\ \A i \in (a + Len(name) + 1)..Len(s) : s[i] \in {" ", "\t"}

IsLevelField(s) == \E t \in LogTypes : IsPaddedName(s, LevelName(t))

\* 0-based offsets at which a maximal run of spaces starts
RunStarts(line) ==
    { i \in 0..(Len(line) - 1) :
        line[i + 1] = " " /\ (i = 0 \/ line[i] /= " ") }

NumSpaceRuns(line) == Cardinality(RunStarts(line))

\* the k-th smallest run start
RunStart(line, k) ==
    CHOOSE i \in RunStarts(line) :
        Cardinality({ j \in RunStarts(line) : j < i }) = k - 1

\* the line in l has been through the loop body
Handled == pc \in {"write", "panicked"}

\* the step that takes the line in l through the loop body
ParseStep == pc = "parse" /\ pc' /= "parse"

\* the loop body emitted the failure-prefixed line
EmitsFailed == pc = "write" /\ new_line = Some(FailedPrefix \o l.val)

\* a string with the escape sequences ESC [ .. m removed
RECURSIVE SkipEscape(_)
RECURSIVE StripAnsi(_)
SkipEscape(s) ==
    IF s = <<>> THEN <<>>
    ELSE IF Head(s) = "m" THEN StripAnsi(Tail(s))
    ELSE SkipEscape(Tail(s))
StripAnsi(s) ==
    IF s = <<>> THEN <<>>
    ELSE IF Head(s) = "ESC" THEN SkipEscape(Tail(s))
    ELSE <<Head(s)>> \o StripAnsi(Tail(s))

NumEscapes(s) == Cardinality({ i \in 1..Len(s) : s[i] = "ESC" })

-----------------------------------------------------------------------------
(* C1 *)

\* C1: in the Unlearned state every line with fewer than 3 maximal runs of
\* spaces is emitted with the failure prefix and the state stays Unlearned.
C1_FewRunsFailGracefully ==
    (Handled /\ parser = "learner" /\ NumSpaceRuns(l.val) < 3)
        => (EmitsFailed /\ ~general_format.some)

-----------------------------------------------------------------------------
(* C2 *)

\* C2: every line of fewer than 4 characters is emitted with the failure
\* prefix, in the Unlearned and in the Learned state, and the state is left
\* unchanged.
C2_ShortLineFails ==
    [][ (ParseStep /\ Len(l.val) < 4)
          => /\ pc' = "write"
             /\ new_line' = Some(FailedPrefix \o l.val)
             /\ general_format' = general_format ]_vars

-----------------------------------------------------------------------------
(* C3 *)

\* the cases of C3: the line is shorter than the cached level end, the
\* level field is no level name, or no space follows the cached source start
Unresolvable(line, gf) ==
    \/ Len(line) < gf.level_end
    \/ ~IsLevelField(SubSeq(line, gf.level_start + 1, gf.level_end))
    \/ ~\E i \in (gf.path_start + 1)..Len(line) : line[i] = " "

\* C3: in the Learned state a line the applier cannot resolve is emitted with
\* the failure prefix and the cached format is kept.
C3_UnresolvableFails ==
    [][ (ParseStep /\ general_format.some
           /\ Unresolvable(l.val, general_format.val))
          => /\ pc' = "write"
             /\ new_line' = Some(FailedPrefix \o l.val)
             /\ general_format' = general_format ]_vars

-----------------------------------------------------------------------------
(* C4 *)

\* C4: the state only moves from Unlearned to Learned.  A cached format is
\* never changed or cleared; it is set only by a successful learner call, to
\* the five offsets of that call's layout; a line is handled by the learner
\* exactly while nothing is cached and by the applier afterwards.
C4_LearnOnce ==
    [][ /\ general_format.some => general_format' = general_format
        /\ ParseStep =>
             parser' = IF general_format.some THEN "applier" ELSE "learner"
        /\ (~general_format.some /\ general_format'.some) =>
             /\ ParseStep
             /\ parser' = "learner"
             /\ full_format'.some
             /\ general_format'.val.tz_start = full_format'.val.tz_start
             /\ general_format'.val.tz_end = full_format'.val.tz_end
             /\ general_format'.val.level_start = full_format'.val.level_start
             /\ general_format'.val.level_end = full_format'.val.level_end
             /\ general_format'.val.path_start = full_format'.val.path_start
        /\ (ParseStep /\ ~general_format.some /\ full_format'.some) =>
             general_format'.some ]_vars

\* a third line failed in the applier with the format still cached
C4_Witness ==
    /\ pc = "write"
    /\ n_read = 3
    /\ parser = "applier"
    /\ ~full_format.some
    /\ general_format.some

-----------------------------------------------------------------------------
(* C5 *)

\* C5: when the learner would succeed on the line with the cached offsets,
\* the applier succeeds too and the output is the one the learner's layout
\* gives.
C5_ApplierEqualsLearner ==
    (/\ Handled
     /\ parser = "applier"
     /\ parse_line_from_scratch(l.val).kind = "Some"
     /\ GeneralLineFormat(parse_line_from_scratch(l.val).val)
          = general_format.val)
        => /\ pc = "write"
           /\ full_format.some
           /\ new_line.val
                = colorize_line(l.val, parse_line_from_scratch(l.val).val)

-----------------------------------------------------------------------------
(* C6 *)

\* C6: for every successfully parsed line the output without its four
\* escape sequences is the line, and the four slices are contiguous, in
\* order and cover the line.
C6_RoundTrip ==
    (pc = "write" /\ full_format.some)
        => /\ StripAnsi(new_line.val) = l.val
           /\ NumEscapes(new_line.val) = 4
           /\ full_format.val.tz_start = 0
           /\ full_format.val.tz_start <= full_format.val.tz_end
           /\ full_format.val.tz_end = full_format.val.level_start
           /\ full_format.val.level_start <= full_format.val.level_end
           /\ full_format.val.level_end = full_format.val.path_start
           /\ full_format.val.path_start <= full_format.val.path_end
           /\ full_format.val.path_end <= Len(l.val)

\* the applier parsed a line with text left after the source end
C6_Witness ==
    /\ pc = "write"
    /\ full_format.some
    /\ parser = "applier"
    /\ full_format.val.path_start < full_format.val.path_end
    /\ full_format.val.path_end < Len(l.val)

-----------------------------------------------------------------------------
(* C7 *)

\* first lines TIMESTAMP, space, 4-letter level, two spaces, SOURCE, message
PaddedFirstLines(ts) ==
    { ts \o <<" ">> \o lv \o <<" ", " ">> \o src \o <<" ", "m">> :
        lv \in { <<"I","N","F","O">>, <<"W","a","r","n">> },
        src \in Sources \ {<<>>} }

\* C7: with the format learned from a line whose 4-letter level is padded
\* with two spaces, a line with the same timestamp width and ERROR followed
\* by one space is parsed by the applier as Error, with the source token and
\* its separator space as source span and the reset code before the message.
C7_FiveLetterLevelAfterPadded ==
    \A ts \in Timestamps \ {<<>>} : \A src \in Sources \ {<<>>} :
        (/\ Handled
         /\ parser = "applier"
         /\ \E first \in PaddedFirstLines(ts) :
                /\ parse_line_from_scratch(first).kind = "Some"
                /\ general_format.val
                     = GeneralLineFormat(parse_line_from_scratch(first).val)
         /\ l.val = ts \o <<" ">> \o <<"E","R","R","O","R">> \o <<" ">>
                       \o src \o <<" ", "m">>)
            => /\ pc = "write"
               /\ full_format.some
               /\ full_format.val.log_type = "Error"
               /\ SubSeq(l.val, full_format.val.path_start + 1,
                         full_format.val.path_end) = src \o <<" ">>
               /\ new_line.val
                    = <<"ESC","[","9","0","m">> \o ts \o <<" ">>
                      \o <<"ESC","[","9","1","m">>
                      \o <<"E","R","R","O","R"," ">>
                      \o <<"ESC","[","9","0","m">> \o src \o <<" ">>
                      \o <<"ESC","[","0","m">> \o <<"m">>

-----------------------------------------------------------------------------
(* C8 *)

\* C8: on a first line TIMESTAMP, space, 4-letter level, two spaces, SOURCE,
\* space, MESSAGE the learner succeeds with the timestamp and its space, the
\* level and both padding spaces, and the source and its space as fields,
\* and MESSAGE alone follows the reset code.
C8_LearnedFields ==
    \A ts \in Timestamps \ {<<>>} : \A src \in Sources \ {<<>>} :
        (/\ Handled
         /\ parser = "learner"
         /\ l.val = ts \o <<" ">> \o <<"I","N","F","O">> \o <<" ", " ">>
                       \o src \o <<" ", "m">>)
            => /\ pc = "write"
               /\ full_format.some
               /\ SubSeq(l.val, full_format.val.tz_start + 1,
                         full_format.val.tz_end) = ts \o <<" ">>
               /\ SubSeq(l.val, full_format.val.level_start + 1,
                         full_format.val.level_end)
                    = <<"I","N","F","O"," "," ">>
               /\ SubSeq(l.val, full_format.val.path_start + 1,
                         full_format.val.path_end) = src \o <<" ">>
               /\ SubSeq(l.val, full_format.val.path_end + 1, Len(l.val))
                    = <<"m">>

-----------------------------------------------------------------------------
(* C9 *)

\* the level field the parser of the line in l classifies
LevelField ==
    IF parser = "learner"
    THEN SubSeq(l.val, RunStart(l.val, 1) + 2, RunStart(l.val, 2))
    ELSE SubSeq(l.val, general_format.val.level_start + 1,
                general_format.val.level_end)

\* the parser of the line in l got as far as classifying the level
Classified ==
    /\ pc = "write"
    /\ parser = "learner" => (Len(l.val) >= 4 /\ NumSpaceRuns(l.val) >= 2)

\* C9: the classification succeeds exactly on the five level names in any
\* casing and with any padding, yields the level and colour of the name, and
\* makes the parser return nothing otherwise; the two parsers agree.
C9_Classification ==
    Classified =>
        /\ full_format.some =>
             /\ IsPaddedName(LevelField, LevelName(full_format.val.log_type))
             /\ SubSeq(new_line.val, full_format.val.tz_end + 6,
                       full_format.val.tz_end + 10)
                  = LevelColour(full_format.val.log_type)
        /\ ~IsLevelField(LevelField) => (~full_format.some /\ EmitsFailed)
        /\ (IsLevelField(LevelField) /\ parser = "learner") => full_format.some
        /\ (IsLevelField(LevelField) /\ parser = "applier") =>
             (full_format.some <=>
                \E i \in (general_format.val.path_start + 1)..Len(l.val) :
                    l.val[i] = " ")
        /\ ScratchLogType(LevelField) = GeneralLogType(LevelField)

\* the applier classified a padded, mixed-case field
C9_Witness ==
    /\ pc = "write"
    /\ parser = "applier"
    /\ full_format.some
    /\ full_format.val.log_type = "Trace"
    /\ LevelField /= LevelName("Trace")
    /\ Len(LevelField) > 5

-----------------------------------------------------------------------------
(* C10 *)

\* C10: no line makes the run fatal.  Short of an I/O error the process does
\* not end before the stream is exhausted, then exits with status zero having
\* written one line per line read, each colorized or failure-prefixed.
C10_ParseFailureNotFatal ==
    /\ pc /= "panicked"
    /\ ExitStatus \in {-1, 0, 1}
    /\ pc = "done" => (ExitStatus = 0 /\ n_written = n_read)
    /\ pc = "write" =>
         \/ new_line = Some(FailedPrefix \o l.val)
         \/ (full_format.some
               /\ new_line = Some(colorize_line(l.val, full_format.val)))

-----------------------------------------------------------------------------
(* C11 *)

\* C11: with a pager, write_destination is released before main waits for
\* the pager: main is never at child.wait() with the channel open, an early
\* exit after a read or write error releases the channel and never waits,
\* and after the stream is exhausted main does get to child.wait().
C11_ReleaseBeforeWait ==
    /\ [](pc = "wait" => (~sink_open /\ child /= "none"))
    /\ [](pc = "failed" => (~sink_open /\ child /= "reaped"))
    /\ [](child = "reaped" => ~sink_open)
    /\ (pc = "drop" ~> pc = "wait")

\* main waits for a running pager after writing a line to it
C11_Witness ==
    /\ pc = "wait"
    /\ child = "running"
    /\ ~sink_open
    /\ n_written > 0

-----------------------------------------------------------------------------
(* C12 *)

\* the length of the line's own timestamp: the text before its first space
OwnTimestampLen(line) ==
    IF RunStarts(line) = {} THEN Len(line) ELSE RunStart(line, 1)

\* the line's timestamp is not as long as the cached one, yet a level name
\* stands at the cached level offsets and a space follows the cached source
\* start
Drifted(line, gf) ==
    /\ OwnTimestampLen(line) /= gf.tz_end - 1
    /\ Len(line) >= gf.level_end
    /\ IsLevelField(SubSeq(line, gf.level_start + 1, gf.level_end))
    /\ \E i \in (gf.path_start + 1)..Len(line) : line[i] = " "

\* the LogType whose name stands in the field s
FieldLogType(s) == CHOOSE t \in LogTypes : IsPaddedName(s, LevelName(t))

\* C12: in the Learned state a drifted line is taken as parsed: it is emitted
\* colorized, without the failure prefix, with the timestamp and level codes
\* at the cached offsets, and the cached format is unchanged.
C12_DriftAccepted ==
    [][ (ParseStep /\ general_format.some
           /\ Drifted(l.val, general_format.val))
          => /\ pc' = "write"
             /\ full_format'.some
             /\ new_line' /= Some(FailedPrefix \o l.val)
             /\ SubSeq(new_line'.val, 1, 5) = <<"ESC","[","9","0","m">>
             /\ SubSeq(new_line'.val, 6, general_format.val.tz_end + 5)
                  = SubSeq(l.val, 1, general_format.val.tz_end)
             /\ SubSeq(new_line'.val, general_format.val.tz_end + 6,
                       general_format.val.tz_end + 10)
                  = LevelColour(FieldLogType(
                        SubSeq(l.val, general_format.val.level_start + 1,
                               general_format.val.level_end)))
             /\ SubSeq(new_line'.val, general_format.val.tz_end + 11,
                       general_format.val.level_end + 10)
                  = SubSeq(l.val, general_format.val.level_start + 1,
                           general_format.val.level_end)
             /\ general_format' = general_format ]_vars

\* the applier parsed a line whose own timestamp is not as long as the
\* cached one
C12_Witness ==
    /\ pc = "write"
    /\ parser = "applier"
    /\ full_format.some
    /\ general_format.val.tz_end > 1
    /\ OwnTimestampLen(l.val) > 0
    /\ OwnTimestampLen(l.val) /= general_format.val.tz_end - 1

-----------------------------------------------------------------------------
(* C13 *)

\* texts put in place of what follows the third run start
Suffixes ==
    { <<>>, <<"m">>, <<" ">>, <<" ", "m", " ">>, <<"xC3", "xA9", " ", "x">> }

\* C13: when the learner succeeds, with s0, s1, s2 the starts of the line's
\* first three runs of spaces, its layout is timestamp [0, s0+1), level
\* [s0+1, s1+1), source [s1+1, s2+1), the cached format is these spans
\* without the source end, and the text after the third run start does not
\* change the result.
C13_LearnedOffsets ==
    (pc = "write" /\ parser = "learner" /\ full_format.some)
        => /\ NumSpaceRuns(l.val) >= 3
           /\ full_format.val.tz_start = 0
           /\ full_format.val.tz_end = RunStart(l.val, 1) + 1
           /\ full_format.val.level_start = RunStart(l.val, 1) + 1
           /\ full_format.val.level_end = RunStart(l.val, 2) + 1
           /\ full_format.val.path_start = RunStart(l.val, 2) + 1
           /\ full_format.val.path_end = RunStart(l.val, 3) + 1
           /\ general_format
                = Some([tz_start    |-> 0,
                        tz_end      |-> RunStart(l.val, 1) + 1,
                        level_start |-> RunStart(l.val, 1) + 1,
                        level_end   |-> RunStart(l.val, 2) + 1,
                        path_start  |-> RunStart(l.val, 2) + 1])
           /\ \A t \in Suffixes :
                parse_line_from_scratch(
                    SubSeq(l.val, 1, RunStart(l.val, 3) + 1) \o t)
                  = RetSome(full_format.val)

\* the learner succeeded on a line with a run of two spaces and text after
\* the third run start
C13_Witness ==
    /\ pc = "write"
    /\ parser = "learner"
    /\ full_format.some
    /\ full_format.val.path_end < Len(l.val)
    /\ \E i \in 1..(Len(l.val) - 1) : l.val[i] = " " /\ l.val[i + 1] = " "

-----------------------------------------------------------------------------
(* C14 *)

\* C14: every LineFormat handed to colorize_line, by the learner or by the
\* applier with whatever format is cached, has offsets valid for the line,
\* 0 = tz_start <= tz_end = level_start <= level_end = path_start
\* <= path_end <= len, each on a character boundary, so that colorize_line
\* does not panic.
C14_OffsetsValid ==
    (Handled /\ full_format.some)
        => /\ pc = "write"
           /\ 0 = full_format.val.tz_start
           /\ full_format.val.tz_start <= full_format.val.tz_end
           /\ full_format.val.tz_end = full_format.val.level_start
           /\ full_format.val.level_start <= full_format.val.level_end
           /\ full_format.val.level_end = full_format.val.path_start
           /\ full_format.val.path_start <= full_format.val.path_end
           /\ full_format.val.path_end <= Len(l.val)
           /\ \A k \in { full_format.val.tz_end, full_format.val.level_end,
                         full_format.val.path_end } :
                k < Len(l.val) => l.val[k + 1] /= "xA9"

\* the applier handed over a layout for a third line that has a two-byte
\* character
C14_Witness ==
    /\ pc = "write"
    /\ n_read = 3
    /\ parser = "applier"
    /\ full_format.some
    /\ \E i \in 1..Len(l.val) : l.val[i] = "xA9"

-----------------------------------------------------------------------------
(* C15 *)

\* the output the specification gives for a line and a layout
ColorizedAs(line, f) ==
    <<"ESC","[","9","0","m">> \o SubSeq(line, f.tz_start + 1, f.tz_end)
        \o LevelColour(f.log_type)
        \o SubSeq(line, f.level_start + 1, f.level_end)
        \o <<"ESC","[","9","0","m">>
        \o SubSeq(line, f.path_start + 1, f.path_end)
        \o <<"ESC","[","0","m">>
        \o SubSeq(line, f.path_end + 1, Len(line))

\* the layouts with valid offsets that differ from f in the level or in the
\* source end
LayoutsLike(line, f) ==
    { [f EXCEPT !.log_type = t] : t \in LogTypes }
    \cup { [f EXCEPT !.path_end = k] :
             k \in { j \in f.path_start..Len(line) :
                       j = Len(line) \/ line[j + 1] /= "xA9" } }

\* C15: the output of colorize_line is the grey code, the timestamp slice,
\* the colour code of the level, the level slice, the grey code, the source
\* slice, the reset code and the rest of the line; it holds these four
\* escape sequences only and is 19 longer than the line, whatever the line
\* and the level.
C15_ColorizedLayout ==
    (pc = "write" /\ full_format.some)
        => /\ new_line.val = ColorizedAs(l.val, full_format.val)
           /\ NumEscapes(new_line.val) = 4
           /\ Len(new_line.val) = Len(l.val) + 19
           /\ \A f \in LayoutsLike(l.val, full_format.val) :
                /\ colorize_line(l.val, f) = ColorizedAs(l.val, f)
                /\ NumEscapes(colorize_line(l.val, f)) = 4
                /\ Len(colorize_line(l.val, f)) = Len(l.val) + 19

\* a line with every slice non-empty was colorized as Debug
C15_Witness ==
    /\ pc = "write"
    /\ full_format.some
    /\ full_format.val.log_type = "Debug"
    /\ 0 < full_format.val.tz_end
    /\ full_format.val.path_start < full_format.val.path_end
    /\ full_format.val.path_end < Len(l.val)
    /\ Len(new_line.val) = Len(l.val) + 19

====
